---- MODULE Spec2Model ----
(***************************************************************************)
(* State-machine model of the audio visualizer: App.tsx (playback and      *)
(* selection glue) and components/Visualizer.tsx (scene builder, animation *)
(* loop, camera).                                                          *)
(*                                                                         *)
(* JavaScript runs every handler to completion, so each action is one      *)
(* handler together with the React render and effects it triggers.  The    *)
(* Visualizer's main effect has the dependency list [mode]: it is re-run   *)
(* (cleanup, then body) only when mode changes, and its closure keeps the  *)
(* analyser and isPlaying props of the render that ran it.                 *)
(*                                                                         *)
(* Real numbers are kept exactly as integers in units of 1/One             *)
(* (One = 2*3*255), which makes x/255, x/3/255, x/2/255 and the gravity    *)
(* 0.6 integral.                                                           *)
(***************************************************************************)
EXTENDS Integers, Sequences, FiniteSets, TLC

VARIABLES
  \* ---- App.tsx ----
  mode,           \* useState<VizMode>
  colorIndex,     \* useState(0): index into COLOR_PALETTE
  isPlaying,      \* useState(false)
  audioAnalyser,  \* useState<AnalyserNode|null>: TRUE when an analyser is set
  audioRef,       \* audioRef.current: the Audio element (created = FALSE: null)
  activeSlotId,   \* useState<number|null>: a slot id or NoSlot
  slots,          \* the ids of the slots that have a url
  endedListener,  \* TRUE when handleEnded is attached to the audio element
  \* ---- Visualizer.tsx ----
  mounted,        \* "no" before mount, "yes" while mounted, "gone" after unmount
  scenes,         \* one scene per run of the main effect, in order
  disposed,       \* the resources on which dispose() has been called
  objectsRef,     \* objectsRef.current
  peaksRef,       \* peaksRef.current
  colorRef,       \* colorRef.current (a palette index)
  frameRef,       \* frameRef.current: the closure that made the latest request
  pending,        \* closures with a pending requestAnimationFrame callback
  closures,       \* the props captured by each closure that can still run
  bars,           \* bar_i.scale.y of the EQ group reachable from objectsRef
  lastTick,       \* what the latest run of animate() read and computed
  ticked,         \* TRUE when the latest step ended with a run of animate()
  \* ---- extrema detection on synthetic sequences (SpecExtrema) ----
  probe,          \* the angular sequence handed to the detection
  flagged,        \* whether it has run, and the indices it promoted, in order
  \* ---- the buffer accesses of one run of animate() (SpecIndex) ----
  access,         \* the loop iteration looked at, and the indices it touches
  \* ---- the scene's view state (SpecNodes, SpecTint, SpecCamera) ----
  nodes,          \* per highlight cloud, the slots of its position buffer
  camera,         \* camera.position.z of the camera of the latest effect run
  tints,          \* material.color of the drawables of the latest scene
  age             \* the number of animate() runs on the latest scene

vars == <<mode, colorIndex, isPlaying, audioAnalyser, audioRef, activeSlotId,
          slots, endedListener, mounted, scenes, disposed, objectsRef,
          peaksRef, colorRef, frameRef, pending, closures, bars, lastTick,
          ticked, probe, flagged, access, nodes, camera, tints, age>>

appVars == <<mode, colorIndex, isPlaying, audioAnalyser, audioRef,
             activeSlotId, slots, endedListener>>

vizVars == <<mounted, scenes, disposed, objectsRef, peaksRef, frameRef,
             pending, closures, bars, lastTick>>

probeVars == <<probe, flagged, access>>

\* The node slots, the camera and the tints are written by setupMode and
\* animate only, each from the tick's inputs and its own previous value: no
\* other state of the model reads them.  Spec, SpecBars and SpecExtrema do not
\* follow them (Still); SpecNodes, SpecTint and SpecCamera do.
viewVars == <<nodes, camera, tints, age>>

----------------------------------------------------------------------------
(* Bounds of the model *)

\* The main effect runs at most MaxBuilds times (mount plus mode switches).
MaxBuilds == 3

\* SpecPeaks follows a session over the scenes of PeakBuilds runs of the main
\* effect.
PeakBuilds == 4

\* The user uploads to and selects the slots 0..MaxSlotId only.
MaxSlotId == 0

\* Spec follows a falling peak for at most MaxFall ticks in a row (SpecBars
\* follows it to the floor).
MaxFall == 2

\* The synthetic sequences of SpecExtrema raise 1..MaxWidth adjacent samples.
MaxWidth == 2

\* Frames are described by two bands of frequency bins: [0, BandSplit) and
\* [BandSplit, 512), and one level for every waveform sample.
BandSplit == 64

\* SpecNodes, SpecTint and SpecCamera follow a scene through its first MaxAge runs of
\* animate(); the camera and the tints are exact numbers over that many
\* smoothing steps.
MaxAge == 2

----------------------------------------------------------------------------
(* Program constants *)

PaletteSize == 5
ByteMax == 255
One == 2 * 3 * ByteMax

Modes == {"ORGANIC_WAVE", "SYMMETRIC_SPIKES", "BLOCK_EQUALIZER",
          "SINE_RHYTHM", "FADER_DANCE"}

NoSlot == -1
NoAudio == [created |-> FALSE, src |-> NoSlot, paused |-> TRUE]
UserSlots == 0 .. MaxSlotId

Max(a, b) == IF a >= b THEN a ELSE b

----------------------------------------------------------------------------
(* Spectral sampling: animate, Visualizer.tsx 238-246 *)

\* new Uint8Array(512): what freqData and timeData hold when analyser is null.
ZeroFrame == [lo |-> 0, hi |-> 0, wave |-> 0]

\* What getByteFrequencyData / getByteTimeDomainData may deliver.
AnalyserFrames ==
  { [lo |-> 0, hi |-> 0, wave |-> 128],
    [lo |-> ByteMax, hi |-> ByteMax, wave |-> ByteMax] }

\* The richer inputs used for the bar and peak physics.
BarLevels == {0, 3, 64, 159}
BarFrames == [lo : BarLevels, hi : {0, ByteMax}, wave : {128}]

\* The inputs of the highlight clouds: a comb, with magnitude ByteMax in
\* every bin (and sample) whose index is a multiple of comb, and silence (0,
\* mid-level 128) in the others.
CombFrames == [comb : {3, 8}]

FreqData(f, k) ==
  IF "comb" \in DOMAIN f
  THEN (IF k % f.comb = 0 THEN ByteMax ELSE 0)
  ELSE IF k < BandSplit THEN f.lo ELSE f.hi

TimeData(f, k) ==
  IF "comb" \in DOMAIN f
  THEN (IF k % f.comb = 0 THEN ByteMax ELSE 128)
  ELSE f.wave

\* The frame a tick of a closure works on: filled from the analyser the closure
\* captured, or left all zero when it captured null.
SampleFrame(analyser, f) == IF analyser THEN f ELSE ZeroFrame

Bass(f) == 2 * (FreqData(f, 0) + FreqData(f, 2) + FreqData(f, 4))
Treble(f) == 3 * (FreqData(f, 120) + FreqData(f, 150))

\* gIdx === 0 ? treble * 25 : bass * 35
Expansion(f, gIdx) == IF gIdx = 0 THEN Treble(f) * 25 ELSE Bass(f) * 35

\* 240 - (bass * 60)
CamTargetZ(f) == 240 * One - Bass(f) * 60

\* isPlaying ? freqData[k] / 255 : 0
FVal(playing, f, k) == IF playing THEN 6 * FreqData(f, k) ELSE 0

\* isPlaying ? (timeData[k] - 128) / 128 : 0, times 100, in units of 1/128
WaveVal(playing, f, k) == IF playing THEN (TimeData(f, k) - 128) * 100 ELSE 0

----------------------------------------------------------------------------
(* Scene builder: setupMode, Visualizer.tsx 60-223 *)

\* The drawables one loop of setupMode creates: count siblings of one kind.
\* top is the index of their top-level object in scene.children and sub the
\* index of their sub-group inside it; tracked says that the top-level object
\* was pushed to objectsRef; points is the number of vertices of the position
\* buffer the code allocates for each (0 for the geometries the library sizes:
\* boxes, planes and the grid helper); colors says that each has a per-vertex
\* colour buffer of the same length.
Drawable(top, sub, kind, name, count, points, colors, tracked) ==
  [top |-> top, sub |-> sub, kind |-> kind, name |-> name, count |-> count,
   points |-> points, colors |-> colors, tracked |-> tracked]

RingsChildren ==
  { Drawable(r, 0, "LineLoop", "", 16, 256, FALSE, TRUE) : r \in 0 .. 1 }
  \cup { Drawable(r, 0, "Points", "nodes", 1, 64, FALSE, TRUE) : r \in 0 .. 1 }

SpikesChildren ==
  { Drawable(0, 0, "LineSegments", "kineticLines", 1, 256 * 2, TRUE, TRUE),
    Drawable(1, 0, "Points", "kineticPoints", 1, 256 * 2, TRUE, TRUE),
    Drawable(2, 0, "Line", "horizon", 1, 2, FALSE, FALSE) }

RibbonsChildren ==
  { Drawable(0, 0, "GridHelper", "grid", 1, 0, FALSE, TRUE) }
  \cup { Drawable(0, j + 1, "Line", "ribbon", 5, 300, FALSE, TRUE) :
           j \in 0 .. 3 }
  \cup { Drawable(0, j + 1, "Points", "nodes", 1, 48, FALSE, TRUE) :
           j \in 0 .. 3 }

BarCount == 48

BarsChildren ==
  { Drawable(0, 0, "Mesh", "bar", BarCount, 0, FALSE, TRUE),
    Drawable(0, 0, "Mesh", "peak", BarCount, 0, FALSE, TRUE) }

\* Strips that hold the top half only.
WaveChildrenHalf ==
  { Drawable(0, 0, "Line", "", 15, 300, FALSE, TRUE) }

WaveChildren ==
  { Drawable(0, 0, "Line", "", 15, 300 * 2, FALSE, TRUE) }

SetupChildren(m) ==
  CASE m = "ORGANIC_WAVE" -> RingsChildren
    [] m = "SYMMETRIC_SPIKES" -> SpikesChildren
    [] m = "BLOCK_EQUALIZER" -> RibbonsChildren
    [] m = "SINE_RHYTHM" -> BarsChildren
    [] m = "FADER_DANCE" -> WaveChildren

\* objectsRef.current.push(...): the tracked top-level objects, in order.
RECURSIVE TopsFrom(_, _, _)
TopsFrom(g, tops, k) ==
  IF tops = {} THEN <<>>
  ELSE IF k \in tops
       THEN <<[gen |-> g, top |-> k]>> \o TopsFrom(g, tops \ {k}, k + 1)
       ELSE TopsFrom(g, tops, k + 1)

SetupObjects(g, m) ==
  TopsFrom(g, { d.top : d \in { c \in SetupChildren(m) : c.tracked } }, 0)

\* peaksRef.current = Array.from({length: barCount}, () => ({y: 0, vel: 0}))
ResetPeaks == [i \in 1 .. BarCount |-> [y |-> 0, vel |-> 0]]

\* A build that leaves the peaks as they are.
SetupPeaksKeep(m, peaks) == peaks

\* Only the SINE_RHYTHM branch assigns peaksRef.
SetupPeaks(m, peaks) == IF m = "SINE_RHYTHM" THEN ResetPeaks ELSE peaks

\* A fresh mesh has scale.y = 1.
ResetBars == [i \in 1 .. BarCount |-> One]

----------------------------------------------------------------------------
(* Resource release: clearScene, Visualizer.tsx 45-58 *)

SceneResources(sc, g) ==
  { [gen |-> g, obj |-> d, res |-> r] :
      d \in sc[g].children, r \in {"geometry", "material"} }

\* clearScene disposes the geometry and material of every child of the scene
\* it is called on and removes the child.
ClearScene(sc, g, disp) == disp \cup SceneResources(sc, g)

\* The scene setupMode clears: `scene` of the running effect, g, created a few
\* lines earlier by new THREE.Scene() (line 32).
ClearTarget(g) == g

----------------------------------------------------------------------------
(* Frame update engine: animate, Visualizer.tsx 235-450 *)

BarFloor == 2
BarScale == 160
BarBase == 80
PeakFloor == -80

\* const gravity = 0.6
Gravity == (6 * One) \div 10

\* Math.floor((i / count) * 150)
BarBin(i) == (i * 150) \div BarCount

\* A bar height without the floor.
BarHeightNoFloor(fVal) == fVal * BarScale

\* Math.max(2, fVal * 160)
BarHeight(fVal) == Max(BarFloor * One, fVal * BarScale)

\* A peak-hold step whose snap keeps the velocity of the fall before it.
PeakStepNoReset(p, barHeight) ==
  LET barTopY == barHeight - BarBase * One
      q == IF barTopY > p.y
           THEN [y |-> barTopY, vel |-> p.vel]
           ELSE [y |-> p.y + (p.vel - Gravity), vel |-> p.vel - Gravity]
  IN  IF q.y < PeakFloor * One THEN [q EXCEPT !.y = PeakFloor * One] ELSE q

\* Lines 410-419: the peak-hold physics of one bar.
PeakStep(p, barHeight) ==
  LET barTopY == barHeight - BarBase * One
      q == IF barTopY > p.y
           THEN [y |-> barTopY, vel |-> 0]
           ELSE [y |-> p.y + (p.vel - Gravity), vel |-> p.vel - Gravity]
  IN  IF q.y < PeakFloor * One THEN [q EXCEPT !.y = PeakFloor * One] ELSE q

\* group.getObjectByName(`bar_${i}`) finds a bar: objectsRef.current[0] is a
\* group that holds the bars.
HasBars(sc, objs) ==
  /\ Len(objs) >= 1
  /\ \E d \in sc[objs[1].gen].children : d.top = objs[1].top /\ d.name = "bar"

\* The bar heights after the SINE_RHYTHM branch of a closure (mode m,
\* isPlaying playing).
BarsAfter(m, playing, frame, sc, objs, barsPre) ==
  IF m = "SINE_RHYTHM" /\ HasBars(sc, objs)
  THEN [i \in 1 .. BarCount |-> BarHeight(FVal(playing, frame, BarBin(i - 1)))]
  ELSE barsPre

\* if (peak && peaksRef.current[i]) { ... }
PeaksAfter(m, playing, frame, sc, objs, peaksPre) ==
  IF m = "SINE_RHYTHM" /\ HasBars(sc, objs)
  THEN [i \in 1 .. Len(peaksPre) |->
          IF i <= BarCount
          THEN PeakStep(peaksPre[i],
                        BarHeight(FVal(playing, frame, BarBin(i - 1))))
          ELSE peaksPre[i]]
  ELSE peaksPre

\* ---- ORGANIC_WAVE: the extrema detection of lines 282-296 ----

RingSamples == 256
NodeCap == 64

\* A comparison without wrap-around: the first sample has no neighbour before
\* it and the last none after it, so neither is ever an extremum.
IsExtremumNoWrap(rv, i) ==
  /\ i > 0
  /\ i < RingSamples - 1
  /\ \/ rv[i] > rv[i - 1] /\ rv[i] > rv[i + 1]
     \/ rv[i] < rv[i - 1] /\ rv[i] < rv[i + 1]

\* Lines 284-288: a sample above both neighbours or below both, the
\* neighbours taken with wrap-around.
IsExtremum(rv, i) ==
  LET prev == rv[(i - 1 + RingSamples) % RingSamples]
      curr == rv[i]
      next == rv[(i + 1) % RingSamples]
      isPeak == curr > prev /\ curr > next
      isTrough == curr < prev /\ curr < next
  IN  isPeak \/ isTrough

\* Lines 283-296: the indices written to the highlight cloud, slot by slot:
\* the loop runs i upwards and takes an extremum while nodeCount < 64, so slot
\* k holds the extremum that has k smaller extrema, for k < 64.
Promote(rv) ==
  LET E == { i \in 0 .. RingSamples - 1 : IsExtremum(rv, i) }
      n == IF Cardinality(E) < NodeCap THEN Cardinality(E) ELSE NodeCap
  IN  [k \in 1 .. n |->
         CHOOSE i \in E : Cardinality({ j \in E : j < i }) = k - 1]

\* What one run of animate() of closure g (props c) read and computed from the
\* sampler's delivery f.
TickRecord(g, c, f) ==
  LET frame == SampleFrame(c.analyser, f)
  IN  [gen |-> g,
       mode |-> c.mode,
       isPlaying |-> c.isPlaying,
       analyser |-> c.analyser,
       frame |-> frame,
       bass |-> Bass(frame),
       treble |-> Treble(frame),
       expansion |-> <<Expansion(frame, 0), Expansion(frame, 1)>>,
       camTargetZ |-> CamTargetZ(frame)]

NoTick == [gen |-> 0]

----------------------------------------------------------------------------
(* Highlight clouds: lines 83-91, 170-175, 256-299, 358-393 *)

RibbonSamples == 300
RibbonStride == 6
RibbonCap == 48
RibbonThreshold == 25
Parked == -5000

\* z of a ribbon point is Math.cos(...) * 40: at most this far from 0.
RibbonDepth == 40

\* A slot of a cloud's position buffer: src is the loop index of the point
\* its x and y were last written from, at the run of animate() (counted on
\* the scene, 0 for the zeros of the new Float32Array) that wrote them, and z
\* its third coordinate.
Slot(src, at, z) == [src |-> src, at |-> at, z |-> z]

\* A cloud: its slots, and how many of them the latest run promoted.
NewCloud(cap) == [n |-> 0, slots |-> [k \in 1 .. cap |-> Slot(0, 0, 0)]]

\* The clouds setupMode builds, in the order of the loops that update them.
BuiltNodes(m) ==
  CASE m = "ORGANIC_WAVE" -> [c \in 1 .. 2 |-> NewCloud(NodeCap)]
    [] m = "BLOCK_EQUALIZER" -> [c \in 1 .. 4 |-> NewCloud(RibbonCap)]
    [] OTHER -> <<>>

\* The first cap elements of a set of loop indices, in increasing order: what
\* `if (... && count < cap) { ...; count++ }` takes in a loop that runs the
\* index upwards.
RECURSIVE InOrder(_, _, _)
InOrder(E, lo, hi) ==
  IF lo = hi THEN (IF lo \in E THEN <<lo>> ELSE <<>>)
  ELSE LET mid == (lo + hi) \div 2
       IN  InOrder(E, lo, mid) \o InOrder(E, mid + 1, hi)

FirstOf(E, cap) ==
  LET all == InOrder(E, 0, RibbonSamples - 1)
  IN  IF Len(all) <= cap THEN all ELSE SubSeq(all, 1, cap)

\* A run that leaves the slots it does not use as they are.
CloudAfterNoPark(cloud, idx, now, z) ==
  [n |-> Len(idx),
   slots |-> [k \in DOMAIN cloud.slots |->
                IF k <= Len(idx) THEN Slot(idx[k], now, z)
                ELSE cloud.slots[k]]]

\* A run that starts writing at the count the run before it left.
CloudAfterCarry(cloud, idx, now, z) ==
  [n |-> Len(idx),
   slots |-> [k \in DOMAIN cloud.slots |->
                IF k <= Len(idx)
                THEN (IF k > cloud.n THEN Slot(idx[k], now, z)
                      ELSE cloud.slots[k])
                ELSE [cloud.slots[k] EXCEPT !.z = Parked]]]

\* The slots after a run: the promoted points go to the first slots, and
\* `for (k = count; k < cap; k++) nodePos[k*3+2] = -5000` parks the others.
CloudAfter(cloud, idx, now, z) ==
  [n |-> Len(idx),
   slots |-> [k \in DOMAIN cloud.slots |->
                IF k <= Len(idx) THEN Slot(idx[k], now, z)
                ELSE [cloud.slots[k] EXCEPT !.z = Parked]]]

Abs(x) == IF x < 0 THEN -x ELSE x

\* The spectrum and waveform indices of the loops.  The code computes each in
\* double precision and takes Math.floor.
\* i % 128, line 268
RingBin(i) == i % 128

\* A spike index scaled to the whole spectrum.
SpikeBinFull(i) == (Abs(2 * i - RingSamples) * 512) \div RingSamples

\* Math.floor(Math.abs(i / 256 - 0.5) * 2 * 200), lines 316-318
SpikeBin(i) == (Abs(2 * i - RingSamples) * 200) \div RingSamples

\* Math.floor((i / 300) * 128), line 369
WaveBin(i) == (i * 128) \div RibbonSamples

\* Math.floor((i / 300) * 100), line 372.  The quotient i / 300 is rounded,
\* and at these i the product falls just below the integer i / 3.
SpectralRoundsDown == {87, 171, 174}
SpectralBin(i) ==
  (i * 100) \div RibbonSamples - (IF i \in SpectralRoundsDown THEN 1 ELSE 0)

\* Math.floor(Math.abs(i / 300 - 0.5) * 2 * 150), lines 431-433: |i - 150|,
\* less one at the i where the rounded difference falls just below.
FaderRoundsDown ==
  { 22, 35, 38, 48, 51, 61, 64, 71, 74, 84, 86, 89, 94, 99, 102, 107, 112,
    115, 117, 120, 122, 125, 128, 130, 133, 135, 138, 140, 143, 145, 146,
    148, 151, 154, 157, 158, 160, 161, 164, 167, 170, 171, 174, 177, 180,
    183, 184, 187, 190, 193, 194, 197, 200, 203, 206, 207, 210, 213, 216,
    220, 223, 226, 229, 233, 236, 239, 246, 249, 252, 259, 262, 265, 269,
    272, 275, 278, 282, 295 }
FaderBin(i) == Abs(i - 150) - (IF i \in FaderRoundsDown THEN 1 ELSE 0)

\* Lines 258-281: radialValues, written from the line loop with offset 0.
RadialValues(playing, f, gIdx) ==
  [i \in 0 .. RingSamples - 1 |->
     (IF gIdx = 0 THEN 45 ELSE 75) * One + Expansion(f, gIdx)
     + FVal(playing, f, RingBin(i)) * 12]

\* Lines 368-373: val of the first ribbon, from the waveform, in units of
\* 1/128.
RibbonWave(playing, f, i) ==
  WaveVal(playing, f, WaveBin(i))

\* Lines 374-377: val of the other ribbons, sine * (20 + fVal * 80), in units
\* of 1/(One * One); sine is the value of Math.sin at the point.
RibbonSpectral(playing, f, i, sine) ==
  sine * (20 * One + FVal(playing, f, SpectralBin(i)) * 80)

\* Lines 381-386: the points of layer 0 a ribbon's cloud takes: every sixth
\* one whose |val| exceeds 25.
RibbonPicks(j, playing, f, sway) ==
  { i \in 0 .. RibbonSamples - 1 :
      /\ i % RibbonStride = 0
      /\ IF j = 0
         THEN Abs(RibbonWave(playing, f, i)) > RibbonThreshold * 128
         ELSE Abs(RibbonSpectral(playing, f, i,
                                 sway[((i \div RibbonStride) % 2) + 1]))
                > RibbonThreshold * One * One }

\* The values Math.sin takes along a ribbon at one instant, at the even and
\* at the odd candidate points: on a crest, at a zero, and in between.
Sways == { <<One, One>>, <<0, 0>>, <<One, -(One \div 4)>> }

\* The clouds after one run of animate() of mode m.
NodesAfter(nd, m, playing, f, sway, now) ==
  CASE m = "ORGANIC_WAVE" ->
         [c \in DOMAIN nd |->
            CloudAfter(nd[c], Promote(RadialValues(playing, f, c - 1)), now, 0)]
    [] m = "BLOCK_EQUALIZER" ->
         [c \in DOMAIN nd |->
            CloudAfter(nd[c],
                       FirstOf(RibbonPicks(c - 1, playing, f, sway), RibbonCap),
                       now, RibbonDepth)]
    [] OTHER -> nd

----------------------------------------------------------------------------
(* Camera and material colours: lines 35-36, 248-254, 403-408, 446-447 *)

RECURSIVE Pow(_, _)
Pow(b, n) == IF n = 0 THEN 1 ELSE b * Pow(b, n - 1)

\* camera.position.z is kept in units of 1/CamScale of (120/One): the targets
\* 240 - bass * 60 are multiples of 120/One and each smoothing step divides
\* by 20.
CamScale == Pow(20, MaxAge)
CamValue(t) == (t \div 120) * CamScale

\* camera.position.z = 240, line 36
CamStart == 240
NewCamera == CamValue(CamStart * One)

\* THREE.MathUtils.lerp(camera.position.z, camTargetZ, 0.05), line 447
CameraAfter(z, f) == z + (CamValue(CamTargetZ(f)) - z) \div 20

\* A colour is its three channels, each in units of 1/TintScale of a byte
\* step: a smoothing step of 0.08 divides by 25 and doubles.
TintScale == Pow(25, MaxAge)
Rgb(r, g, b) == <<r * TintScale, g * TintScale, b * TintScale>>

\* COLOR_PALETTE, constants.tsx 12-18
Palette ==
  << Rgb(176, 255, 0), Rgb(0, 229, 255), Rgb(255, 109, 0), Rgb(255, 0, 255),
     Rgb(255, 255, 255) >>

\* colorRef.current as a colour
ActiveColor(ref) == Palette[ref + 1]

White == Rgb(255, 255, 255)

\* A colour change that takes effect at once.
LerpColorSnap(c, t) == t

\* color.lerp(target, 0.08), line 251
LerpColor(c, t) == [ch \in 1 .. 3 |-> c[ch] + ((t[ch] - c[ch]) * 2) \div 25]

\* new THREE.Color('#9D00FF').lerp(new THREE.Color('#FF0000'), fVal), 407
BarCol(fVal) ==
  LET from == Rgb(157, 0, 255)
      to == Rgb(255, 0, 0)
  IN  [ch \in 1 .. 3 |->
         from[ch] + ((to[ch] - from[ch]) * (fVal \div 6)) \div ByteMax]

\* A traversal that skips no name.
IsHighlightNameNever(name) == FALSE

\* !obj.name.includes("peak") && !obj.name.includes("nodes"), line 250
IsHighlightName(name) == name \in {"peak", "nodes"}

\* The material colour each class of drawables is built with: col for the
\* ring lines, the ribbons and the bars, the first layer's gradient colour
\* for FADER_DANCE, and white for the highlight clouds, the caps, the grid,
\* the horizon and the vertex-coloured materials.
BuiltTint(m, name, col) ==
  IF m = "FADER_DANCE" THEN Rgb(0, 229, 255)
  ELSE IF m = "ORGANIC_WAVE" /\ name = "" THEN col
  ELSE IF name \in {"ribbon", "bar"} THEN col
  ELSE White

\* The material colour of the first drawable of each class of mode m, by
\* class name, as setupMode leaves it.
BuiltTints(m, col) ==
  [name \in { d.name : d \in SetupChildren(m) } |-> BuiltTint(m, name, col)]

\* Lines 248-254 and 403-408: the traversal moves every material that is not
\* of a highlight toward colorRef.current, except in FADER_DANCE and
\* SYMMETRIC_SPIKES; the SINE_RHYTHM branch then overwrites the bars' colour.
TintsAfter(t, m, playing, f, ref) ==
  [name \in DOMAIN t |->
     IF m = "SINE_RHYTHM" /\ name = "bar"
     THEN BarCol(FVal(playing, f, BarBin(0)))
     ELSE IF m \notin {"FADER_DANCE", "SYMMETRIC_SPIKES"}
             /\ ~IsHighlightName(name)
          THEN LerpColor(t[name], ActiveColor(ref))
          ELSE t[name]]

----------------------------------------------------------------------------
(* The Visualizer's effects *)

\* A cleanup that does not cancel the request of the loop it ends.
CancelFrameNone(pend, fref) == pend

\* cancelAnimationFrame(frameRef.current), line 455
CancelFrame(pend, fref) == pend \ {fref}

\* The closure of one run of the main effect: the props of that render.
Closure(m, a, p) == [mode |-> m, analyser |-> a, isPlaying |-> p]

\* Closures no pending callback refers to can never run again.
Retain(cl, pend) == [g \in pend |-> cl[g]]

\* The body of the main effect (lines 30-452) run as closure number
\* Len(scenes) + 1 for mode m with the props analyser a and isPlaying p, after
\* the cleanup of the previous run left the requests pend: setupMode(), then
\* the first animate().
EffectBody(m, a, p, f, pend) ==
  LET g == Len(scenes) + 1
      c == Closure(m, a, p)
      sc0 == Append(scenes, [mode |-> m, children |-> {}])
      tgt == ClearTarget(g)
      disp == ClearScene(sc0, tgt, disposed)
      sc1 == [sc0 EXCEPT ![tgt].children = {}]
      sc2 == [sc1 EXCEPT ![g].children = @ \cup SetupChildren(m)]
      objs == SetupObjects(g, m)
      peaks0 == SetupPeaks(m, peaksRef)
      bars0 == IF m = "SINE_RHYTHM" THEN ResetBars ELSE bars
  IN  /\ scenes' = sc2
      /\ disposed' = disp
      /\ objectsRef' = objs
      /\ peaksRef' = PeaksAfter(m, p, SampleFrame(a, f), sc2, objs, peaks0)
      /\ bars' = BarsAfter(m, p, SampleFrame(a, f), sc2, objs, bars0)
      /\ lastTick' = TickRecord(g, c, f)
      /\ frameRef' = g
      /\ pending' = pend \cup {g}
      /\ closures' = Retain((g :> c) @@ closures, pend \cup {g})
      /\ ticked' = TRUE

Inputs(a) == IF a THEN AnalyserFrames ELSE {ZeroFrame}

\* A synthetic angular sequence: level base everywhere, base + rise at the
\* indices at, at + 1, ..., at + width - 1 (with wrap-around).
ProbeValues(q) ==
  [i \in 0 .. RingSamples - 1 |->
     IF (i - q.at + RingSamples) % RingSamples < q.width
     THEN q.base + q.rise ELSE q.base]

FlatProbe == [base |-> 45 * One, at |-> 0, width |-> 0, rise |-> 0]
NotRun == [done |-> FALSE, idx |-> <<>>]
NoAccess == [phase |-> "none", part |-> 0, i |-> 0, reads |-> {}, writes |-> {}]

\* The view after one run of animate() on the clouds nd, the camera at z and
\* the tints t, which have seen a runs: the run is the one lastTick' records.
ViewStep(nd, z, t, a, sway) ==
  /\ age' = a + 1
  /\ nodes' = NodesAfter(nd, lastTick'.mode, lastTick'.isPlaying,
                         lastTick'.frame, sway, a + 1)
  /\ camera' = CameraAfter(z, lastTick'.frame)
  /\ tints' = TintsAfter(t, lastTick'.mode, lastTick'.isPlaying,
                         lastTick'.frame, colorRef')

\* The view after a run of the main effect: a new camera (lines 35-36), the
\* clouds and materials of setupMode, then the first animate().
ViewBuild(sway) ==
  ViewStep(BuiltNodes(mode'), NewCamera,
           BuiltTints(mode', ActiveColor(colorRef')), 0, sway)

\* The view is not followed.
Still == UNCHANGED viewVars

----------------------------------------------------------------------------
(* Initial state: App constructed, nothing mounted yet *)

InitSession ==
  /\ mode = "ORGANIC_WAVE"
  /\ colorIndex = 0
  /\ isPlaying = FALSE
  /\ audioAnalyser = FALSE
  /\ audioRef = NoAudio
  /\ activeSlotId = NoSlot
  /\ slots = {}
  /\ endedListener = FALSE
  /\ mounted = "no"
  /\ scenes = <<>>
  /\ disposed = {}
  /\ objectsRef = <<>>
  /\ peaksRef = <<>>
  /\ colorRef = 0
  /\ frameRef = 0
  /\ pending = {}
  /\ closures = <<>>
  /\ bars = ResetBars
  /\ lastTick = NoTick
  /\ ticked = FALSE
  /\ access = NoAccess
  /\ nodes = <<>>
  /\ camera = NewCamera
  /\ tints = <<>>
  /\ age = 0

Init ==
  /\ InitSession
  /\ probe = FlatProbe
  /\ flagged = NotRun

----------------------------------------------------------------------------
(* Actions *)

\* First render: the Visualizer's effects (colorRef, then the main effect) and
\* App's effects.  App's 'ended' effect (lines 94-100) attaches handleEnded
\* only if audioRef.current is already set.
Mount ==
  /\ mounted = "no"
  /\ mounted' = "yes"
  /\ colorRef' = colorIndex
  /\ endedListener' = audioRef.created
  /\ \E f \in Inputs(audioAnalyser) :
       EffectBody(mode, audioAnalyser, isPlaying, f, pending)
  /\ UNCHANGED <<mode, colorIndex, isPlaying, audioAnalyser, audioRef,
                 activeSlotId, slots, probeVars>>

\* One animation frame: the pending callback of closure g runs animate() on
\* the sampler's delivery f.
Animate(g, f) ==
  LET c == closures[g]
      frame == SampleFrame(c.analyser, f)
  IN  /\ mounted = "yes"
      /\ g \in pending
      /\ frameRef' = g
      /\ pending' = (pending \ {g}) \cup {g}
      /\ bars' = BarsAfter(c.mode, c.isPlaying, frame, scenes, objectsRef, bars)
      /\ peaksRef' = PeaksAfter(c.mode, c.isPlaying, frame, scenes, objectsRef,
                                peaksRef)
      /\ lastTick' = TickRecord(g, c, f)
      /\ ticked' = TRUE
      /\ UNCHANGED <<appVars, mounted, scenes, disposed, objectsRef, colorRef,
                     closures, probeVars>>

\* Some peak has been falling for MaxFall ticks in a row.
DeepFall(peaks) ==
  \E i \in DOMAIN peaks : peaks[i].vel <= -(MaxFall * Gravity)

Tick ==
  \E g \in pending :
    \E f \in Inputs(closures[g].analyser) :
      /\ closures[g].mode = "SINE_RHYTHM" => ~DeepFall(peaksRef)
      /\ Animate(g, f)
      /\ Still

\* Controls: a mode button (App.tsx 132-135).  The colour advances; when the
\* mode changes the main effect is cleaned up and run again.
\* The session is followed while it has built fewer than cap scenes.
Switch(m, cap) ==
  /\ mounted = "yes"
  /\ m \in Modes
  /\ mode' = m
  /\ colorIndex' = (colorIndex + 1) % PaletteSize
  /\ colorRef' = colorIndex'
  /\ IF m = mode
     THEN UNCHANGED vizVars /\ ticked' = FALSE
     ELSE /\ Len(scenes) < cap
          /\ \E f \in Inputs(audioAnalyser) :
               EffectBody(m, audioAnalyser, isPlaying, f,
                          CancelFrame(pending, frameRef))
          /\ UNCHANGED mounted
  /\ UNCHANGED <<isPlaying, audioAnalyser, audioRef, activeSlotId, slots,
                 endedListener, probeVars>>

SetMode(m) == Switch(m, MaxBuilds)

\* setInterval, App.tsx 25-30
ColorTimer ==
  /\ mounted = "yes"
  /\ colorIndex' = (colorIndex + 1) % PaletteSize
  /\ colorRef' = colorIndex'
  /\ ticked' = FALSE
  /\ UNCHANGED <<mode, isPlaying, audioAnalyser, audioRef, activeSlotId, slots,
                 endedListener, vizVars, probeVars, viewVars>>

\* handleFileUpload, App.tsx 55-58 (the upload button shows on empty slots)
HandleFileUpload(id) ==
  /\ mounted = "yes"
  /\ id \in UserSlots
  /\ id \notin slots
  /\ slots' = slots \cup {id}
  /\ ticked' = FALSE
  /\ UNCHANGED <<mode, colorIndex, isPlaying, audioAnalyser, audioRef,
                 activeSlotId, endedListener, vizVars, colorRef, probeVars,
                 viewVars>>

\* initAudio, App.tsx 32-53: the audio element after the call.
InitAudio(ref) == [ref EXCEPT !.created = TRUE]

\* handleSlotSelect, App.tsx 60-82 (the button shows on slots with a file)
HandleSlotSelect(id) ==
  /\ mounted = "yes"
  /\ id \in UserSlots
  /\ id \in slots
  /\ audioAnalyser' = TRUE
  /\ IF activeSlotId = id
     THEN /\ audioRef' = [InitAudio(audioRef) EXCEPT !.paused = isPlaying]
          /\ isPlaying' = ~isPlaying
          /\ UNCHANGED <<activeSlotId, colorIndex, colorRef>>
     ELSE /\ audioRef' = [InitAudio(audioRef) EXCEPT !.src = id,
                                                      !.paused = FALSE]
          /\ activeSlotId' = id
          /\ isPlaying' = TRUE
          /\ colorIndex' = (colorIndex + 1) % PaletteSize
          /\ colorRef' = colorIndex'
  /\ ticked' = FALSE
  /\ UNCHANGED <<mode, slots, endedListener, vizVars, probeVars, viewVars>>

\* handleReset, App.tsx 84-92 (the button shows once a slot is active)
HandleReset ==
  /\ mounted = "yes"
  /\ activeSlotId # NoSlot
  /\ audioRef.created
  /\ audioRef' = [audioRef EXCEPT !.paused = IF isPlaying THEN @ ELSE FALSE]
  /\ isPlaying' = TRUE
  /\ ticked' = FALSE
  /\ UNCHANGED <<mode, colorIndex, audioAnalyser, activeSlotId, slots,
                 endedListener, vizVars, colorRef, probeVars, viewVars>>

\* The track plays to its end: the element pauses and fires 'ended', which
\* runs handleEnded (App.tsx 97) if it was attached.
AudioEnded ==
  /\ mounted = "yes"
  /\ audioRef.created
  /\ ~audioRef.paused
  /\ audioRef' = [audioRef EXCEPT !.paused = TRUE]
  /\ isPlaying' = IF endedListener THEN FALSE ELSE isPlaying
  /\ ticked' = FALSE
  /\ UNCHANGED <<mode, colorIndex, audioAnalyser, activeSlotId, slots,
                 endedListener, vizVars, colorRef, probeVars, viewVars>>

\* Component teardown: the cleanup of the main effect, lines 454-459.
Unmount ==
  /\ mounted = "yes"
  /\ mounted' = "gone"
  /\ pending' = CancelFrame(pending, frameRef)
  /\ closures' = Retain(closures, pending')
  /\ ticked' = FALSE
  /\ UNCHANGED <<appVars, scenes, disposed, objectsRef, peaksRef, colorRef,
                 frameRef, bars, lastTick, probeVars, viewVars>>

Next ==
  \/ Mount /\ Still
  \/ Tick
  \/ \E m \in Modes : SetMode(m) /\ Still
  \/ ColorTimer
  \/ \E id \in UserSlots : HandleFileUpload(id)
  \/ \E id \in UserSlots : HandleSlotSelect(id)
  \/ HandleReset
  \/ AudioEnded
  \/ Unmount

Spec == Init /\ [][Next]_vars

----------------------------------------------------------------------------
(* The bar and peak physics on richer spectra: a session in                *)
(* SINE_RHYTHM, as left by Mount, HandleFileUpload(0), HandleSlotSelect(0) *)
(* (once to play, or twice to play and pause) and SetMode("SINE_RHYTHM").  *)

InitBars ==
  \E f \in BarFrames, p \in BOOLEAN :
    LET c == Closure("SINE_RHYTHM", TRUE, p)
        sc == << [mode |-> "ORGANIC_WAVE", children |-> RingsChildren],
                 [mode |-> "SINE_RHYTHM", children |-> BarsChildren] >>
        objs == SetupObjects(2, "SINE_RHYTHM")
    IN  /\ mode = "SINE_RHYTHM"
        /\ colorIndex = 2
        /\ isPlaying = p
        /\ audioAnalyser = TRUE
        /\ audioRef = [created |-> TRUE, src |-> 0, paused |-> ~p]
        /\ activeSlotId = 0
        /\ slots = {0}
        /\ endedListener = FALSE
        /\ mounted = "yes"
        /\ scenes = sc
        /\ disposed = {}
        /\ objectsRef = objs
        /\ peaksRef = PeaksAfter("SINE_RHYTHM", p, f, sc, objs, ResetPeaks)
        /\ colorRef = 2
        /\ frameRef = 2
        /\ pending = {2}
        /\ closures = (2 :> c)
        /\ bars = BarsAfter("SINE_RHYTHM", p, f, sc, objs, ResetBars)
        /\ probe = FlatProbe
        /\ flagged = NotRun
        /\ access = NoAccess
        /\ lastTick = TickRecord(2, c, f)
        /\ ticked = TRUE
        /\ nodes = <<>>
        /\ camera = NewCamera
        /\ tints = <<>>
        /\ age = 0

BarTick == \E g \in pending : \E f \in BarFrames : Animate(g, f) /\ Still

NextBars == BarTick

SpecBars == InitBars /\ [][NextBars]_vars

\* The peaks over mode switches: the same session, ticking on the coarse
\* frames and switching modes until PeakBuilds scenes have been built, so
\* that SINE_RHYTHM is left with peaks in flight and built again.
PeakSwitch == \E m \in Modes : m # mode /\ Switch(m, PeakBuilds) /\ Still

NextPeaks == Tick \/ PeakSwitch

SpecPeaks == InitBars /\ [][NextPeaks]_vars

----------------------------------------------------------------------------
(* The extrema detection of lines 282-296 on synthetic angular sequences:  *)
(* flat, one raised or lowered sample, and plateaus of two or three.       *)

ProbeRises == {-One, One}

Probes ==
  {FlatProbe}
  \cup [base : {45 * One}, at : 0 .. RingSamples - 1, width : 1 .. MaxWidth,
        rise : ProbeRises]

InitExtrema ==
  /\ InitSession
  /\ probe \in Probes
  /\ flagged = NotRun

Detect ==
  /\ ~flagged.done
  /\ flagged' = [done |-> TRUE, idx |-> Promote(ProbeValues(probe))]
  /\ UNCHANGED <<appVars, vizVars, colorRef, ticked, probe, access, viewVars>>

NextExtrema == Detect

SpecExtrema == InitExtrema /\ [][NextExtrema]_vars

----------------------------------------------------------------------------
(* The view of a scene over its first runs of animate().                   *)

\* The session after Mount, HandleFileUpload(0), HandleSlotSelect(0) (once to
\* play, or twice to play and pause: p) and then one SetMode for each of the
\* modes ms[2], ms[3], ...: the latest effect run captured the analyser and p,
\* and its first animate() ran on the frame f with the sines sway.
Built(ms, p, f, sway) ==
  LET g == Len(ms)
      m == ms[g]
      c == Closure(m, TRUE, p)
      sc == [k \in 1 .. g |-> [mode |-> ms[k], children |-> SetupChildren(ms[k])]]
      objs == SetupObjects(g, m)
      peaks0 == IF \E k \in 1 .. g : ms[k] = "SINE_RHYTHM"
                THEN ResetPeaks ELSE <<>>
  IN  /\ mode = m
      /\ colorIndex = g % PaletteSize
      /\ isPlaying = p
      /\ audioAnalyser = TRUE
      /\ audioRef = [created |-> TRUE, src |-> 0, paused |-> ~p]
      /\ activeSlotId = 0
      /\ slots = {0}
      /\ endedListener = FALSE
      /\ mounted = "yes"
      /\ scenes = sc
      /\ disposed = {}
      /\ objectsRef = objs
      /\ peaksRef = PeaksAfter(m, p, f, sc, objs, peaks0)
      /\ colorRef = g % PaletteSize
      /\ frameRef = g
      /\ pending = {g}
      /\ closures = (g :> c)
      /\ bars = BarsAfter(m, p, f, sc, objs, ResetBars)
      /\ lastTick = TickRecord(g, c, f)
      /\ ticked = TRUE
      /\ probe = FlatProbe
      /\ flagged = NotRun
      /\ access = NoAccess
      /\ nodes = NodesAfter(BuiltNodes(m), m, p, f, sway, 1)
      /\ camera = CameraAfter(NewCamera, f)
      /\ tints = TintsAfter(BuiltTints(m, ActiveColor(g % PaletteSize)), m, p,
                            f, g % PaletteSize)
      /\ age = 1

\* What the analyser may deliver to the highlight clouds.
NodeFrames == AnalyserFrames \cup CombFrames

InitNodes ==
  \E ms \in { <<"ORGANIC_WAVE", "BLOCK_EQUALIZER">>,
               <<"ORGANIC_WAVE", "BLOCK_EQUALIZER", "ORGANIC_WAVE">> } :
    \E p \in BOOLEAN, f \in NodeFrames, sway \in Sways :
      Built(ms, p, f, sway)

\* One animation frame, with the view.
ViewAnimate(g, f, sway) ==
  /\ age < MaxAge
  /\ Animate(g, f)
  /\ ViewStep(nodes, camera, tints, age, sway)

NodeTick ==
  \E g \in pending : \E f \in NodeFrames, sway \in Sways :
    ViewAnimate(g, f, sway)

NextNodes == NodeTick

SpecNodes == InitNodes /\ [][NextNodes]_vars

\* Sessions with the view, the sines at a zero.
ViewSways == { <<0, 0>> }

ViewTick ==
  \E g \in pending :
    \E f \in Inputs(closures[g].analyser), sway \in ViewSways :
      ViewAnimate(g, f, sway)

\* Colours: each mode in turn, under ticks and palette changes.
InitTint ==
  \E ms \in { <<"ORGANIC_WAVE", m>> : m \in Modes \ {"ORGANIC_WAVE"} }
             \cup { <<"ORGANIC_WAVE", "BLOCK_EQUALIZER", "ORGANIC_WAVE">> } :
    \E p \in BOOLEAN, f \in AnalyserFrames, sway \in ViewSways :
      Built(ms, p, f, sway)

NextTint ==
  \/ ViewTick
  \/ ColorTimer

SpecTint == InitTint /\ [][NextTint]_vars

\* Camera: ticks and switches to another mode.
InitCamera ==
  \E m \in Modes \ {"ORGANIC_WAVE"} :
    \E p \in BOOLEAN, f \in AnalyserFrames, sway \in ViewSways :
      Built(<<"ORGANIC_WAVE", m>>, p, f, sway)

ViewSwitch(m) ==
  /\ m # mode
  /\ SetMode(m)
  /\ \E sway \in ViewSways : ViewBuild(sway)

NextCamera ==
  \/ ViewTick
  \/ \E m \in Modes : ViewSwitch(m)

SpecCamera == InitCamera /\ [][NextCamera]_vars

----------------------------------------------------------------------------
(* The buffer accesses of one run of animate(), iteration by iteration:    *)
(* the run is the one lastTick records, on the scene of the latest build.  *)

\* analyser.fftSize = 1024, App.tsx 45
FftSize == 1024

\* new Uint8Array(analyser ? analyser.frequencyBinCount : 512), lines 238-239
BinCount(analyser) == IF analyser THEN FftSize \div 2 ELSE 512

\* One element access: the buffer, the index, and the buffer's length.
Touch(buf, at, len) == [buf |-> buf, at |-> at, len |-> len]
Run(buf, from, n, len) == { Touch(buf, from + k, len) : k \in 0 .. n - 1 }

\* The length of the position buffer setupMode allocated for the drawables
\* called name in the sub-group sub of the top-level object top of scene g.
BufferLen(g, top, sub, name) ==
  LET d == CHOOSE d \in scenes[g].children :
             d.top = top /\ d.sub = sub /\ d.name = name
  IN  3 * d.points

\* The loops of animate(): the parts each mode runs its loop for (ring
\* groups, ribbons) and the number of iterations.
Parts(m) ==
  CASE m = "ORGANIC_WAVE" -> 0 .. 1
    [] m = "BLOCK_EQUALIZER" -> 0 .. 3
    [] OTHER -> {0}

LoopCount(m) ==
  CASE m = "ORGANIC_WAVE" -> RingSamples
    [] m = "SYMMETRIC_SPIKES" -> 256
    [] m = "BLOCK_EQUALIZER" -> RibbonSamples
    [] m = "SINE_RHYTHM" -> BarCount
    [] m = "FADER_DANCE" -> 300

HasClouds(m) == m \in {"ORGANIC_WAVE", "BLOCK_EQUALIZER"}

\* Where the cloud of a part sits in the scene: nodes_${gIdx} in ring group
\* gIdx, nodes_${j} in group.children[j + 1].
CloudTop(m, part) == IF m = "ORGANIC_WAVE" THEN part ELSE 0
CloudSub(m, part) == IF m = "ORGANIC_WAVE" THEN 0 ELSE part + 1

\* freqData[0], [2], [4], [120], [150], lines 245-246
HeadReads(t) ==
  { Touch("freqData", k, BinCount(t.analyser)) : k \in {0, 2, 4, 120, 150} }

\* The spectrum and waveform elements iteration i of part reads: none while
\* isPlaying is false.  The rings also read radialValues around i.
LoopReads(t, part, i) ==
  LET bins == BinCount(t.analyser)
      m == t.mode
      data == IF ~t.isPlaying THEN {}
              ELSE CASE m = "ORGANIC_WAVE" ->
                          {Touch("freqData", RingBin(i), bins)}
                     [] m = "SYMMETRIC_SPIKES" ->
                          {Touch("freqData", SpikeBin(i), bins)}
                     [] m = "BLOCK_EQUALIZER" ->
                          (IF part = 0
                           THEN {Touch("timeData", WaveBin(i), bins)}
                           ELSE {Touch("freqData", SpectralBin(i), bins)})
                     [] m = "SINE_RHYTHM" ->
                          {Touch("freqData", BarBin(i), bins)}
                     [] m = "FADER_DANCE" ->
                          {Touch("freqData", FaderBin(i), bins)}
  IN  data \cup
      (IF m = "ORGANIC_WAVE"
       THEN { Touch("radialValues", k, RingSamples) :
                k \in { (i - 1 + RingSamples) % RingSamples, i,
                        (i + 1) % RingSamples } }
       ELSE {})

\* nodePos[nodeCount * 3 .. + 2]: the slot the point i of part was promoted
\* to, if it was.
NodeWrites(t, part, i) ==
  LET cloud == nodes[part + 1]
      len == BufferLen(t.gen, CloudTop(t.mode, part), CloudSub(t.mode, part),
                       "nodes")
  IN  UNION { Run("nodes", (k - 1) * 3, 3, len) :
                k \in { k \in 1 .. cloud.n : cloud.slots[k].src = i } }

\* The elements iteration i of part writes.
LoopWrites(t, part, i) ==
  LET g == t.gen
      m == t.mode
  IN  CASE m = "ORGANIC_WAVE" ->
             Run("position", i * 3, 3, BufferLen(g, part, 0, ""))
             \cup {Touch("radialValues", i, RingSamples)}
             \cup NodeWrites(t, part, i)
        [] m = "SYMMETRIC_SPIKES" ->
             Run("linePos", i * 2 * 3, 6, BufferLen(g, 0, 0, "kineticLines"))
             \cup Run("lineColors", i * 2 * 3, 6,
                      BufferLen(g, 0, 0, "kineticLines"))
             \cup Run("ptsPos", i * 2 * 3, 6,
                      BufferLen(g, 1, 0, "kineticPoints"))
             \cup Run("ptsColors", i * 2 * 3, 6,
                      BufferLen(g, 1, 0, "kineticPoints"))
        [] m = "BLOCK_EQUALIZER" ->
             Run("position", i * 3, 3, BufferLen(g, 0, part + 1, "ribbon"))
             \cup NodeWrites(t, part, i)
        [] m = "SINE_RHYTHM" ->
             {Touch("peaks", i, Len(peaksRef))}
        [] m = "FADER_DANCE" ->
             Run("position", i * 3, 3, BufferLen(g, 0, 0, ""))
             \cup Run("position", (i + 300) * 3, 3, BufferLen(g, 0, 0, ""))

Iteration(t, part, i) ==
  [phase |-> "loop", part |-> part, i |-> i,
   reads |-> LoopReads(t, part, i), writes |-> LoopWrites(t, part, i)]

\* nodePos[k * 3 + 2] = -5000, lines 297 and 389
Parking(t, part, k) ==
  [phase |-> "park", part |-> part, i |-> k, reads |-> {},
   writes |-> { Touch("nodes", k * 3 + 2,
                      BufferLen(t.gen, CloudTop(t.mode, part),
                                CloudSub(t.mode, part), "nodes")) }]

Follow(a) ==
  /\ access' = a
  /\ UNCHANGED <<appVars, vizVars, colorRef, ticked, probe, flagged, viewVars>>

\* The run starts: bass and treble.
Begin ==
  /\ access.phase = "none"
  /\ Follow([phase |-> "head", part |-> 0, i |-> 0,
             reads |-> HeadReads(lastTick), writes |-> {}])

\* The loop of one part starts.
Enter(part) ==
  /\ access.phase = "head"
  /\ part \in Parts(lastTick.mode)
  /\ Follow(Iteration(lastTick, part, 0))

\* i++
Advance ==
  /\ access.phase = "loop"
  /\ access.i + 1 < LoopCount(lastTick.mode)
  /\ Follow(Iteration(lastTick, access.part, access.i + 1))

\* for (k = nodeCount; k < cap; k++), after the loop of the part.
Park ==
  /\ HasClouds(lastTick.mode)
  /\ LET cloud == nodes[access.part + 1]
         k == IF access.phase = "park" THEN access.i + 1 ELSE cloud.n
     IN  /\ \/ access.phase = "park"
            \/ /\ access.phase = "loop"
               /\ access.i = LoopCount(lastTick.mode) - 1
         /\ k < Len(cloud.slots)
         /\ Follow(Parking(lastTick, access.part, k))

\* Every mode as the current one, playing or paused, the sines on a crest.
InitIndex ==
  \E ms \in { <<"ORGANIC_WAVE", m>> : m \in Modes \ {"ORGANIC_WAVE"} }
             \cup { <<"ORGANIC_WAVE", "BLOCK_EQUALIZER", "ORGANIC_WAVE">> } :
    \E p \in BOOLEAN, f \in NodeFrames :
      Built(ms, p, f, <<One, One>>)

NextIndex ==
  \/ Begin
  \/ \E part \in 0 .. 3 : Enter(part)
  \/ Advance
  \/ Park

SpecIndex == InitIndex /\ [][NextIndex]_vars

----------------------------------------------------------------------------
(* Claims *)

\* The geometries and materials created and not yet disposed.
Live ==
  UNION { SceneResources(scenes, g) : g \in 1 .. Len(scenes) } \ disposed

\* The scene of the latest run of the main effect.
Current == Len(scenes)

\* C1: after any sequence of mode switches the live (undisposed) geometries
\* and materials are exactly those of the active mode's scene: the previous
\* mode's were all disposed before the new ones were built.
C1_LiveIsActiveMode ==
  mounted = "yes" => Live = SceneResources(scenes, Current)

\* C2: at every tick at which App's isPlaying is false, every term derived
\* from a spectrum bin or waveform sample (per-point fVal and val, bass,
\* treble, the ring expansions, the camera target) has the value it has on
\* all-zero magnitudes, whatever the sampler delivered.
C2_IdleTermsAreZero ==
  (ticked /\ ~isPlaying) =>
    /\ lastTick.bass = Bass(ZeroFrame)
    /\ lastTick.treble = Treble(ZeroFrame)
    /\ lastTick.expansion = <<Expansion(ZeroFrame, 0), Expansion(ZeroFrame, 1)>>
    /\ lastTick.camTargetZ = CamTargetZ(ZeroFrame)
    /\ \A k \in {0, BandSplit} :
         /\ FVal(lastTick.isPlaying, lastTick.frame, k) = 0
         /\ WaveVal(lastTick.isPlaying, lastTick.frame, k) = 0

\* C3: each tick uses, for isPlaying, activeColor and the selected mode, the
\* value App most recently wrote before that tick (the tick reads the colour
\* from colorRef.current).
C3_TickReadsLatest ==
  ticked =>
    /\ lastTick.isPlaying = isPlaying
    /\ colorRef = colorIndex
    /\ lastTick.mode = mode

\* C4: each tick's frame comes from the analyser attached at that tick: the
\* all-zero frame when App has attached none, and the analyser's data at every
\* tick after App (initAudio) attached one.
C4_FrameFromAttachedAnalyser ==
  ticked =>
    /\ lastTick.analyser = audioAnalyser
    /\ ~audioAnalyser => lastTick.frame = ZeroFrame

\* C5: teardown cancels the pending next-tick request, so no tick can run
\* after it, and releases every geometry and material of the active mode and
\* of the background layer.
C5_TeardownReleases ==
  mounted = "gone" => (pending = {} /\ Live = {})

\* C6: a mode switch is atomic with respect to the tick loop: whenever a
\* tick's update for mode M has run, it was a tick of the loop of the latest
\* switch, objectsRef holds exactly the tracked objects built for M, the scene
\* they live in is fully built, and in SINE_RHYTHM the peak array has one entry
\* per bar; no request of an earlier loop is pending and at most one request
\* is pending at all.
C6_SwitchIsAtomic ==
  /\ Cardinality(pending) <= 1
  /\ pending \subseteq {Current}
  /\ ticked =>
       /\ lastTick.gen = Current
       /\ scenes[Current].mode = lastTick.mode
       /\ scenes[Current].children = SetupChildren(lastTick.mode)
       /\ objectsRef = SetupObjects(Current, lastTick.mode)
       /\ lastTick.mode = "SINE_RHYTHM" => Len(peaksRef) = BarCount

\* A loop started by a switch from ORGANIC_WAVE to SINE_RHYTHM has ticked again
\* after the switch (the peaks have fallen for a second frame).
C6_TickAfterSwitch ==
  /\ ticked
  /\ Current = 2
  /\ scenes[1].mode = "ORGANIC_WAVE"
  /\ lastTick.mode = "SINE_RHYTHM"
  /\ peaksRef[1].vel = -(2 * Gravity)

\* The shape of a drawable class: where it sits, what it is, how many
\* siblings, and the length of each one's position buffer.
Shape(top, sub, kind, count, points) ==
  [top |-> top, sub |-> sub, kind |-> kind, count |-> count, points |-> points]

SceneShape(g) ==
  { Shape(d.top, d.sub, d.kind, d.count, d.points) : d \in scenes[g].children }

\* The topology table: per mode, the drawables the scene is said to hold.
TopologyTable(m) ==
  CASE m = "ORGANIC_WAVE" ->
         { Shape(0, 0, "LineLoop", 16, 256), Shape(0, 0, "Points", 1, 64),
           Shape(1, 0, "LineLoop", 16, 256), Shape(1, 0, "Points", 1, 64) }
    [] m = "SYMMETRIC_SPIKES" ->
         { Shape(0, 0, "LineSegments", 1, 512), Shape(1, 0, "Points", 1, 512) }
    [] m = "BLOCK_EQUALIZER" ->
         { Shape(0, 0, "GridHelper", 1, 0) }
         \cup { Shape(0, j, "Line", 5, 300) : j \in 1 .. 4 }
         \cup { Shape(0, j, "Points", 1, 48) : j \in 1 .. 4 }
    [] m = "SINE_RHYTHM" ->
         { Shape(0, 0, "Mesh", 48, 0) }
    [] m = "FADER_DANCE" ->
         { Shape(0, 0, "Line", 15, 600) }

\* The 48 bars and the 48 caps are two classes of 48 meshes each.
MeshClasses(g) ==
  Cardinality({ d \in scenes[g].children : d.kind = "Mesh" })

\* The static horizon line of SYMMETRIC_SPIKES (lines 136-139).
HorizonShape == Shape(2, 0, "Line", 1, 2)

\* C7 as stated: after every build, whatever the modes before it, and after
\* every later tick, the scene holds exactly the drawables of the topology
\* table, each with the buffer length of the table.
C7_ExactlyTheTable ==
  \A g \in 1 .. Len(scenes) : SceneShape(g) = TopologyTable(scenes[g].mode)

\* C7, amended: after every build, whatever the modes before it, and after
\* every later tick, the scene holds the drawables of the topology table with
\* the table's buffer lengths, and in SYMMETRIC_SPIKES one more drawable, the
\* static two-point horizon line; nothing else, and no length ever changes.
C7_TableAndHorizon ==
  \A g \in 1 .. Len(scenes) :
    LET m == scenes[g].mode
    IN  /\ SceneShape(g) =
             TopologyTable(m)
             \cup (IF m = "SYMMETRIC_SPIKES" THEN {HorizonShape} ELSE {})
        /\ m = "SINE_RHYTHM" => MeshClasses(g) = 2

\* SYMMETRIC_SPIKES built as the third scene, after BLOCK_EQUALIZER, and
\* ticked on a loud frame.
C7_SpikesAfterRibbons ==
  /\ ticked
  /\ Current = 3
  /\ scenes[2].mode = "BLOCK_EQUALIZER"
  /\ scenes[3].mode = "SYMMETRIC_SPIKES"
  /\ lastTick.gen = 3
  /\ lastTick.frame.lo = ByteMax

\* The top of bar i after the step, in the coordinates of the peaks.
BarTopAfter(i) == bars'[i] - 80 * One

\* The step of bar i snaps the peak to the bar top and stops it.
Snaps(i) == peaksRef'[i] = [y |-> BarTopAfter(i), vel |-> 0]

\* C8 as stated: at a tick where the bar top exceeds the stored peak the peak
\* becomes the bar top and the velocity 0; at every other tick the velocity
\* decreases by g and the peak changes by the new velocity; the stored peak is
\* never below -80.
C8_PeakMovesByVelocity ==
  [][\A i \in 1 .. BarCount :
       /\ IF BarTopAfter(i) > peaksRef[i].y
          THEN Snaps(i)
          ELSE /\ peaksRef'[i].vel = peaksRef[i].vel - Gravity
               /\ peaksRef'[i].y = peaksRef[i].y + peaksRef'[i].vel
       /\ peaksRef'[i].y >= -80 * One]_vars

\* C8, amended: at a tick where the bar top exceeds the stored peak the peak
\* becomes the bar top and the velocity 0 (the peak rises); at every other
\* tick the velocity decreases by g and the peak becomes the larger of -80 and
\* the peak plus the new velocity, which is strictly below the peak before;
\* the stored peak is never below -80.
C8_PeakMovesByVelocityToFloor ==
  [][\A i \in 1 .. BarCount :
       /\ IF BarTopAfter(i) > peaksRef[i].y
          THEN Snaps(i) /\ peaksRef'[i].y > peaksRef[i].y
          ELSE LET v == peaksRef[i].vel - Gravity
                   y == peaksRef[i].y + v
               IN  /\ peaksRef'[i].vel = v
                   /\ peaksRef'[i].y = (IF y < -80 * One THEN -80 * One ELSE y)
                   /\ peaksRef'[i].y < peaksRef[i].y
       /\ peaksRef'[i].y >= -80 * One]_vars

\* A peak that fell onto the floor: it sits at -80 with the velocity of its
\* fall.
C8_PeakOnFloor ==
  /\ ticked
  /\ lastTick.mode = "SINE_RHYTHM"
  /\ \E i \in 1 .. BarCount :
       peaksRef[i].y = -80 * One /\ peaksRef[i].vel < 0

\* The amplitude of bar i at the latest tick, as a fraction of 255 in units
\* of 1/One: the magnitude of the bar's bin while playing, 0 otherwise.
Amplitude(i) ==
  IF lastTick.isPlaying
  THEN (FreqData(lastTick.frame, ((i - 1) * 150) \div 48) * One) \div 255
  ELSE 0

\* C9: in SINE_RHYTHM, after every tick and for every frame, each of the 48
\* bars has height max(2, amplitude x 160), so never less than 2; when the
\* spectrum is all zero every bar's height is exactly 2, playing or not.
C9_BarHeightHasFloor ==
  (ticked /\ lastTick.mode = "SINE_RHYTHM") =>
    /\ DOMAIN bars = 1 .. 48
    /\ \A i \in 1 .. 48 :
         /\ bars[i] >= 2 * One
         /\ bars[i] = (IF Amplitude(i) * 160 > 2 * One
                       THEN Amplitude(i) * 160 ELSE 2 * One)
         /\ (lastTick.frame.lo = 0 /\ lastTick.frame.hi = 0) =>
              bars[i] = 2 * One

\* A later tick of the SINE_RHYTHM loop (the peaks have been falling for two
\* frames) while playing, on an all-zero spectrum.
C9_SilentWhilePlaying ==
  /\ ticked
  /\ lastTick.mode = "SINE_RHYTHM"
  /\ lastTick.isPlaying
  /\ lastTick.frame.lo = 0
  /\ lastTick.frame.hi = 0
  /\ peaksRef[1].vel <= -(2 * Gravity)

\* C10: the detection over the 256 samples, with wrap-around at indices 0 and
\* 255: a sequence with one sample above all the others, which are equal,
\* flags that index and no other; a flat sequence flags none.
C10_SingleMaximumFlagged ==
  flagged.done =>
    /\ probe.width = 0 => flagged.idx = <<>>
    /\ (probe.width = 1 /\ probe.rise > 0) => flagged.idx = <<probe.at>>

\* The detection has run on a sequence whose single maximum is the last
\* sample, whose neighbour after it is sample 0.
C10_MaximumAtLastIndex ==
  /\ flagged.done
  /\ probe.width = 1
  /\ probe.rise > 0
  /\ probe.at = 255

\* C11: after every tick in ORGANIC_WAVE and in BLOCK_EQUALIZER, for every
\* highlight cloud (capacity 64 for the rings, 48 for the ribbons): the number
\* n of promoted points is at most the capacity, the slots 1..n hold points
\* written by this tick, and every other slot has z = -5000, so a slot that
\* holds a point written by an earlier tick is off camera.
C11_UnusedSlotsParked ==
  (ticked /\ lastTick.mode \in {"ORGANIC_WAVE", "BLOCK_EQUALIZER"}) =>
    /\ Len(nodes) = (IF lastTick.mode = "ORGANIC_WAVE" THEN 2 ELSE 4)
    /\ \A c \in DOMAIN nodes :
         LET cloud == nodes[c]
             cap == IF lastTick.mode = "ORGANIC_WAVE" THEN 64 ELSE 48
         IN  /\ Len(cloud.slots) = cap
             /\ cloud.n <= cap
             /\ \A k \in 1 .. cap :
                  /\ k <= cloud.n => cloud.slots[k].at = age
                  /\ k > cloud.n => cloud.slots[k].z = -5000
                  /\ cloud.slots[k].at < age => cloud.slots[k].z = -5000

\* A cloud whose latest tick promoted fewer points than an earlier tick of the
\* same scene, which had filled the cloud to its last slot.
C11_FewerThanBefore ==
  /\ ticked
  /\ age = 2
  /\ \E c \in DOMAIN nodes :
       /\ nodes[c].n < Len(nodes[c].slots)
       /\ nodes[c].slots[Len(nodes[c].slots)].at = 1

\* The step is a run of animate() on the scene that was already there.
LaterTick == age' = age + 1

\* The colour c2 is the colour c1 moved toward the colour a by
\* c += (a - c) x 0.08.
Smoothed(c1, c2, a) ==
  \A ch \in 1 .. 3 : 25 * (c2[ch] - c1[ch]) = 2 * (a[ch] - c1[ch])

\* The classes of ordinary drawables: ring line loops and wave strips (""),
\* ribbon strips and bars.
Ordinary == {"", "ribbon", "bar"}

\* C12 as stated: in every mode, at every tick the colour of each ordinary
\* drawable moves toward activeColor by color += (activeColor - color) x k,
\* with the one k = 0.08.
C12_EveryModeSmooths ==
  [][LaterTick =>
       \A name \in DOMAIN tints \cap Ordinary :
         Smoothed(tints[name], tints'[name], ActiveColor(colorRef))]_vars

\* C12, amended: at every tick in ORGANIC_WAVE and BLOCK_EQUALIZER the colour
\* of each drawable other than the highlight clouds moves toward activeColor
\* by color += (activeColor - color) x 0.08; in SINE_RHYTHM the bar's colour
\* is set from the amplitude alone, between (157, 0, 255) at 0 and (255, 0, 0)
\* at 1; in SYMMETRIC_SPIKES and FADER_DANCE no material colour changes.
C12_SmoothsWhereTraversed ==
  [][LaterTick =>
       LET m == lastTick'.mode
           amp == IF lastTick'.isPlaying
                  THEN FreqData(lastTick'.frame, 0) ELSE 0
       IN  CASE m \in {"ORGANIC_WAVE", "BLOCK_EQUALIZER"} ->
                  \A name \in DOMAIN tints \ {"nodes"} :
                    Smoothed(tints[name], tints'[name], ActiveColor(colorRef))
             [] m = "SINE_RHYTHM" ->
                  tints'["bar"] =
                    << (157 + (98 * amp) \div 255) * TintScale, 0,
                       (255 - amp) * TintScale >>
             [] OTHER -> tints' = tints]_vars

\* A tick of BLOCK_EQUALIZER after the palette moved on: the ribbons' colour
\* is between the colour they were built with and the active one.
C12_RibbonsOnTheWay ==
  /\ ticked
  /\ age = 2
  /\ lastTick.mode = "BLOCK_EQUALIZER"
  /\ colorRef = 3
  /\ tints["ribbon"] \notin {Palette[3], Palette[4]}

\* C13: the highlight clouds (nodes) and the caps (peak) are never retinted:
\* over any ticks and activeColor changes their colour is the white they were
\* built with.
C13_HighlightsStayWhite ==
  \A name \in DOMAIN tints \cap {"nodes", "peak"} :
    tints[name] = <<255 * TintScale, 255 * TintScale, 255 * TintScale>>

\* A tick of SINE_RHYTHM, which has caps, after the palette moved on to a
\* colour that is not white.
C13_CapsUnderNewColour ==
  /\ ticked
  /\ age = 2
  /\ lastTick.mode = "SINE_RHYTHM"
  /\ "peak" \in DOMAIN tints
  /\ colorRef = 3

\* C14: camera distance is one scalar that changes only by smoothing: over
\* every two consecutive ticks, a mode switch between them included, the
\* distance after the later tick is old + (target - old) x 0.05, old being
\* the distance left by the earlier tick and target = 240 - bass x 60 (in the
\* camera's unit of 120 / One, 240 is 2 x One and bass x 60 the sum of the
\* three bass bins).
C14_CameraOnlySmooths ==
  [][(ticked /\ ticked') =>
       LET f == lastTick'.frame
           target == (2 * One - (FreqData(f, 0) + FreqData(f, 2)
                                   + FreqData(f, 4))) * CamScale
       IN  20 * (camera' - camera) = target - camera]_vars

\* The step is a run of the main effect that builds SINE_RHYTHM.
BuildsBars == Len(scenes') = Len(scenes) + 1 /\ mode' = "SINE_RHYTHM"

\* The step is a run of animate() of a SINE_RHYTHM closure on the scene that
\* was already there.
BarsTick ==
  /\ ticked'
  /\ lastTick'.mode = "SINE_RHYTHM"
  /\ scenes' = scenes
  /\ pending # {}

\* The peak p of a bar of height h after a tick that started at the peak q.
PeakFollows(q, p, h) ==
  LET top == h - 80 * One
  IN  IF top > q.y
      THEN p = [y |-> top, vel |-> 0]
      ELSE /\ p.vel = q.vel - (6 * One) \div 10
           /\ p.y = Max(q.y + p.vel, -80 * One)

\* C15: whenever SINE_RHYTHM is the active mode the peak array has exactly
\* 48 entries; every build of SINE_RHYTHM resets every entry to height 0 and
\* velocity 0 (the build's own first tick then starts from there); between
\* builds the entries change at SINE_RHYTHM ticks only, each of which starts
\* from the entries the tick before left.
C15_PeakState ==
  /\ mode = "SINE_RHYTHM" => Len(peaksRef) = 48
  /\ [][/\ mode' = "SINE_RHYTHM" => Len(peaksRef') = 48
        /\ BuildsBars =>
             \A i \in 1 .. 48 :
               PeakFollows([y |-> 0, vel |-> 0], peaksRef'[i], bars'[i])
        /\ (peaksRef' # peaksRef /\ ~BuildsBars) =>
             /\ BarsTick
             /\ \A i \in 1 .. 48 :
                  PeakFollows(peaksRef[i], peaksRef'[i], bars'[i])]_vars

\* SINE_RHYTHM has been built a second time, and the bars are low: had the
\* first build's peaks survived, some velocity would be below one step of
\* gravity.
C15_BuiltAgain ==
  /\ mode = "SINE_RHYTHM"
  /\ Len(scenes) = 4
  /\ scenes[2].mode = "SINE_RHYTHM"
  /\ scenes[4].mode = "SINE_RHYTHM"
  /\ \A i \in 1 .. 48 : peaksRef[i] = [y |-> -((6 * One) \div 10),
                                       vel |-> -((6 * One) \div 10)]

\* The camera distance a tick on the frame f leaves when it is the first
\* tick of its scene: 240 + (target - 240) x 0.05.
FirstCamera(f) ==
  LET start == 2 * One * CamScale
      target == (2 * One - (FreqData(f, 0) + FreqData(f, 2) + FreqData(f, 4)))
                  * CamScale
  IN  start + (target - start) \div 20

\* The clouds whose points do not depend on the elapsed time: the rings' (the
\* angular sequence is taken at offset 0) and the first ribbon's (the
\* waveform).
Timeless(m, c) == m = "ORGANIC_WAVE" \/ (m = "BLOCK_EQUALIZER" /\ c = 1)

\* The points a tick of mode m promotes to the cloud c, from its inputs.
PointsOf(t, c) ==
  IF t.mode = "ORGANIC_WAVE"
  THEN Promote(RadialValues(t.isPlaying, t.frame, c - 1))
  ELSE FirstOf(RibbonPicks(c - 1, t.isPlaying, t.frame, <<0, 0>>), RibbonCap)

C17_AccessesInBounds ==
  \A t \in access.reads \cup access.writes :
    /\ 0 <= t.at
    /\ t.at < t.len
    /\ t.buf \in {"freqData", "timeData"} => t.at < 512

\* An iteration that reads the spectrum while playing and writes the last
\* element of a buffer.
C17_WritesLastElement ==
  /\ access.phase = "loop"
  /\ access.reads # {}
  /\ \E w \in access.writes : w.at = w.len - 1

\* C18: after every SINE_RHYTHM tick, for every bar, the stored peak is at or
\* above the bar's current top (barHeight - 80), also when the bar's height
\* is the same over consecutive ticks.
C18_PeakNotBelowBar ==
  (ticked /\ lastTick.mode = "SINE_RHYTHM") =>
    \A i \in 1 .. 48 : peaksRef[i].y >= bars[i] - 80 * One

\* C19: whenever the audio element that plays the active track reaches its
\* end (it stops playing without a click on its slot) while isPlaying is
\* true, isPlaying becomes false, for any order of mount, first slot
\* selection and playback end.
C19_EndedStopsPlaying ==
  [][(isPlaying /\ ~audioRef.paused /\ audioRef'.paused) => ~isPlaying']_vars

====
